---- MODULE Spec2Model ----
(***************************************************************************)
(* Portfolio Hub (newapp.py): a Streamlit script over a MongoDB "users"    *)
(* collection.  Every user interaction re-runs the script in that user's   *)
(* browser session; one action below is one such run, from the click to    *)
(* the page that is finally rendered.                                      *)
(*                                                                         *)
(* Python values are modelled as follows.                                  *)
(*   str        a sequence of one-character strings: "Al" is <<"A","l">>   *)
(*   bytes      a sequence of integers 0..255                              *)
(*   None / x   the empty tuple <<>> / the one-element tuple <<x>>         *)
(*   dict       a record (documents) or a set of <<key, value>> pairs      *)
(*   base64 str a sequence of indices 0..63 into the base64 alphabet,      *)
(*              64 standing for the padding character "="                  *)
(***************************************************************************)
EXTENDS Integers, Sequences, FiniteSets, TLC

None == <<>>
Some(x) == <<x>>

(***************************************************************************)
(* Strings                                                                 *)
(***************************************************************************)
UpperAlpha == <<"A","B","C","D","E","F","G","H","I","J","K","L","M",
                "N","O","P","Q","R","S","T","U","V","W","X","Y","Z">>
LowerAlpha == <<"a","b","c","d","e","f","g","h","i","j","k","l","m",
                "n","o","p","q","r","s","t","u","v","w","x","y","z">>
Digits == <<"0","1","2","3","4","5","6","7","8","9">>

IndexIn(c, table) == CHOOSE i \in 1..Len(table) : table[i] = c
IsIn(c, table) == \E i \in 1..Len(table) : table[i] = c

UpperSet == {UpperAlpha[i] : i \in 1..Len(UpperAlpha)}
ToLower == [c \in UpperSet |-> LowerAlpha[IndexIn(c, UpperAlpha)]]

\* str.lower(), one character
LowerChar(c) == IF c \in UpperSet THEN ToLower[c] ELSE c

\* str.lower()
Lower(s) == [i \in 1..Len(s) |-> LowerChar(s[i])]

IsSpace(c) == c \in {" ", "\t", "\n"}

RECURSIVE LStrip(_)
LStrip(s) == IF s # <<>> /\ IsSpace(Head(s)) THEN LStrip(Tail(s)) ELSE s

RECURSIVE RStrip(_)
RStrip(s) == IF s # <<>> /\ IsSpace(s[Len(s)]) THEN RStrip(SubSeq(s, 1, Len(s) - 1)) ELSE s

\* str.strip()
Strip(s) == RStrip(LStrip(s))

\* str.split(sep): the pieces between the separators, empty pieces kept
RECURSIVE SplitFrom(_, _, _)
SplitFrom(s, sep, piece) ==
    IF s = <<>> THEN <<piece>>
    ELSE IF Head(s) = sep THEN <<piece>> \o SplitFrom(Tail(s), sep, <<>>)
    ELSE SplitFrom(Tail(s), sep, Append(piece, Head(s)))

Split(s, sep) == SplitFrom(s, sep, <<>>)

\* the code point of a character, for str.encode("utf-8") of ASCII text
Ord(c) ==
    IF IsIn(c, UpperAlpha) THEN 64 + IndexIn(c, UpperAlpha)
    ELSE IF IsIn(c, LowerAlpha) THEN 96 + IndexIn(c, LowerAlpha)
    ELSE IF IsIn(c, Digits) THEN 47 + IndexIn(c, Digits)
    ELSE IF c = " " THEN 32
    ELSE IF c = "," THEN 44
    ELSE IF c = "." THEN 46
    ELSE 63

Utf8(s) == [i \in 1..Len(s) |-> Ord(s[i])]

(***************************************************************************)
(* base64                                                                  *)
(***************************************************************************)
\* base64.b64encode(bs).decode("utf-8")
B64Encode(bs) ==
    LET n == Len(bs)
        groups == (n + 2) \div 3
        pad == 3 * groups - n
        byte(i) == IF i <= n THEN bs[i] ELSE 0
        v(g) == byte(3 * g - 2) * 65536 + byte(3 * g - 1) * 256 + byte(3 * g)
        sextet(g, j) ==
            CASE j = 0 -> v(g) \div 262144
              [] j = 1 -> (v(g) \div 4096) % 64
              [] j = 2 -> (v(g) \div 64) % 64
              [] j = 3 -> v(g) % 64
    IN  [k \in 1..(4 * groups) |->
            IF k > 4 * groups - pad THEN 64
            ELSE sextet((k - 1) \div 4 + 1, (k - 1) % 4)]

\* base64.b64decode(cs.encode("utf-8"))
B64Decode(cs) ==
    LET groups == Len(cs) \div 4
        pad == Cardinality({k \in 1..Len(cs) : cs[k] = 64})
        val(k) == IF cs[k] = 64 THEN 0 ELSE cs[k]
        v(g) == val(4 * g - 3) * 262144 + val(4 * g - 2) * 4096
                + val(4 * g - 1) * 64 + val(4 * g)
        byte(g, j) ==
            CASE j = 0 -> v(g) \div 65536
              [] j = 1 -> (v(g) \div 256) % 256
              [] j = 2 -> v(g) % 256
    IN  [m \in 1..(3 * groups - pad) |-> byte((m - 1) \div 3 + 1, (m - 1) % 3)]

(***************************************************************************)
(* Credentials                                                             *)
(***************************************************************************)
SALT_SIZE == 16
ITERATIONS == 100000
\* the length of a SHA-256 derived key
DKLEN == 32

\* hashlib.pbkdf2_hmac("sha256", password, salt, iterations): a deterministic
\* 32-byte key.  The key is modelled as an injective function of its
\* arguments: their bytes written out behind two header bytes and padded
\* with zeros (injective for passwords of up to 14 bytes).
pbkdf2_hmac(password, salt, iterations) ==
    LET body == <<iterations % 256, Len(password)>> \o password \o salt
    IN  [i \in 1..DKLEN |-> IF i <= Len(body) THEN body[i] ELSE 0]

\* a verify_password that splits the salt off one byte short
verify_password_short_salt(stored_b64, password) ==
    LET data == B64Decode(stored_b64)
        salt == SubSeq(data, 1, SALT_SIZE - 1)
        key_stored == SubSeq(data, SALT_SIZE + 1, Len(data))
        key_new == pbkdf2_hmac(Utf8(password), salt, ITERATIONS)
    IN  key_stored = key_new

\* hash_password(password), salt being what os.urandom(SALT_SIZE) returned
hash_password(password, salt) ==
    LET key == pbkdf2_hmac(Utf8(password), salt, ITERATIONS)
    IN  B64Encode(salt \o key)

verify_password(stored_b64, password) ==
    LET data == B64Decode(stored_b64)
        salt == SubSeq(data, 1, SALT_SIZE)
        key_stored == SubSeq(data, SALT_SIZE + 1, Len(data))
        key_new == pbkdf2_hmac(Utf8(password), salt, ITERATIONS)
    IN  key_stored = key_new

\* image_bytes_to_base64
image_bytes_to_base64(file_bytes) == B64Encode(file_bytes)

(***************************************************************************)
(* Bounds and inputs                                                       *)
(***************************************************************************)
\* the clock readings the writes may take: 1..MaxTime
MaxTime == 3
\* the longest temporary project list
MaxProjects == 2
\* the longest password handed to hash_password / verify_password alone
MaxPwLen == 2

\* two browser sessions
Sessions == {"s1", "s2"}
\* the session that acts when one session is followed through every handler
Solo == {"s1"}

\* what is typed into the username fields: "", " ", "a", "A ", "b"
UsernameInputs == {<<>>, <<" ">>, <<"a">>, <<"A", " ">>, <<"b">>}
\* what is typed into the password field at login: "", "p", "q"
PasswordInputs == {<<>>, <<"p">>, <<"q">>}
\* what is typed into Password and Confirm password at signup: "", "p" and
\* "p", "q"
SignupPasswords == {<<>>, <<"p">>}
ConfirmInputs == {<<"p">>, <<"q">>}
\* Full name at signup: " Al "
NameInputs == {<<" ", "A", "l", " ">>}
\* Email at signup: "" (the field is optional)
EmailInputs == {<<>>}
\* the edit=<username> token of the URL a session is opened with
EditTokens == {None, Some(<<"a">>), Some(<<"b">>)}
\* what os.urandom(SALT_SIZE) may return
SaltSeeds == {0, 7, 255}
Salts == {[i \in 1..SALT_SIZE |-> (b * i) % 256] : b \in SaltSeeds}
\* the salt drawn at signup
SignupSalts == {[i \in 1..SALT_SIZE |-> (7 * i) % 256]}

\* the accounts of the two-session runs: "a", "B "
RaceUsernames == {<<"a">>, <<"B", " ">>}
\* the passwords of the two-session runs: "p" signs up, "p" and "q" log in
RacePasswords == {<<"p">>, <<"q">>}

\* the "Add a project" fields: a titled project and one without a title
ProjectInputs ==
    { [title |-> <<"T">>, description |-> <<"d">>, link |-> <<>>],
      [title |-> <<>>, description |-> <<"d">>, link |-> <<>>] }

\* the widget values when "Save portfolio" is clicked: the three form fields,
\* the three URL fields and the uploaded file
FormInputs ==
    { [full_name |-> <<"B", "o", " ">>, bio |-> <<" ", "h", "i">>,
       skills_raw |-> <<"P", "y", ",", " ", ",", "s", "q", "l">>,
       github |-> <<"g">>, linkedin |-> <<>>, website |-> <<" ", "w", " ">>,
       img_file |-> None],
      [full_name |-> <<"C", "y">>, bio |-> <<>>, skills_raw |-> <<>>,
       github |-> <<>>, linkedin |-> <<>>, website |-> <<>>,
       img_file |-> Some(<<137, 80>>)] }

\* the search box: "", " ", "py", ".", "a", "B"
SearchTerms == {<<>>, <<" ">>, <<"p", "y">>, <<".">>, <<"a">>, <<"B">>}

RECURSIVE StringsUpTo(_, _)
StringsUpTo(chars, n) ==
    IF n = 0 THEN {<<>>}
    ELSE LET shorter == StringsUpTo(chars, n - 1)
         IN  shorter \cup {Append(w, c) : w \in shorter, c \in chars}

\* the passwords hash_password and verify_password are applied to alone
Passwords == StringsUpTo({"p", "q"}, MaxPwLen)

(***************************************************************************)
(* State                                                                   *)
(***************************************************************************)
VARIABLES
    users,      \* users_col: the documents of the collection, in natural order
    session,    \* st.session_state and the URL's query parameters, per session
    now,        \* the latest reading of datetime.utcnow()
    temp_src,   \* history: per entry of projects_temp, the user it came from
    hashed,     \* the latest hash_password call made alone
    verified    \* the latest verify_password call made alone

vars == <<users, session, now, temp_src, hashed, verified>>
appVars == <<users, session, now, temp_src>>
hashVars == <<hashed, verified>>

\* Python truthiness of an optional string
Truthy(opt) == opt # None /\ opt[1] # <<>>

Min(S) == CHOOSE x \in S : \A y \in S : x <= y

(***************************************************************************)
(* The users collection                                                    *)
(***************************************************************************)
Usernames(coll) == {coll[i].username : i \in 1..Len(coll)}

\* users_col.find_one({"username": username})
find_one(coll, username) ==
    LET hits == {i \in 1..Len(coll) : coll[i].username = username}
    IN  IF hits = {} THEN None ELSE Some(coll[Min(hits)])

\* an insert_one that consults no index
insert_one_no_index(coll, doc) == [raised |-> FALSE, coll |-> Append(coll, doc)]

\* users_col.insert_one(doc) under the unique index on username: raises
\* DuplicateKeyError, inserting nothing, when the key is already there
insert_one(coll, doc) ==
    IF doc.username \in Usernames(coll)
    THEN [raised |-> TRUE, coll |-> coll]
    ELSE [raised |-> FALSE, coll |-> Append(coll, doc)]

\* {"$set": fields} applied to one document
SetFields(doc, fields) ==
    [f \in DOMAIN doc \cup DOMAIN fields |->
        IF f \in DOMAIN fields THEN fields[f] ELSE doc[f]]

\* an update that ignores its filter and takes the first document
update_one_no_filter(coll, username, fields) ==
    IF coll = <<>> THEN coll
    ELSE [coll EXCEPT ![1] = SetFields(coll[1], fields)]

\* users_col.update_one({"username": username}, {"$set": fields})
update_one(coll, username, fields) ==
    LET hits == {i \in 1..Len(coll) : coll[i].username = username}
    IN  IF hits = {} THEN coll
        ELSE [coll EXCEPT ![Min(hits)] = SetFields(coll[Min(hits)], fields)]

(***************************************************************************)
(* Session helpers                                                         *)
(***************************************************************************)
NewSession(edit) == [user |-> None, edit |-> edit, projects_temp |-> None]

\* login_user(username)
login_user(sess, username) == [sess EXCEPT !.user = Some(username)]

\* a logout_user that clears the wrong key
logout_user_wrong_key(sess) == [sess EXCEPT !.edit = None]

logout_user(sess) == [sess EXCEPT !.user = None]

\* an ownership check that only asks for some logged-in user
EditAllowed_any_user(sess) == sess.edit # None /\ Truthy(sess.user)

\* the edit page's check: the edit parameter is there, and the session's user
\* is set and equals it
EditAllowed(sess) ==
    /\ sess.edit # None
    /\ ~ (~ Truthy(sess.user) \/ sess.user[1] # sess.edit[1])

\* The rest of a run after its handler: the edit page, when it is shown,
\* seeds projects_temp from the user's document unless the session holds one.
\* (Were there no document, user_doc.get would raise before the seeding.)
Render(sess, coll) ==
    IF /\ EditAllowed(sess)
       /\ sess.projects_temp = None
       /\ find_one(coll, sess.edit[1]) # None
    THEN [sess EXCEPT !.projects_temp = Some(find_one(coll, sess.edit[1])[1].projects)]
    ELSE sess

\* the history of Render: the seeded entries come from the edited user
RenderSrc(sess, src, coll) ==
    IF /\ EditAllowed(sess)
       /\ sess.projects_temp = None
       /\ find_one(coll, sess.edit[1]) # None
    THEN [i \in 1..Len(find_one(coll, sess.edit[1])[1].projects) |-> sess.edit[1]]
    ELSE src

(***************************************************************************)
(* Documents                                                               *)
(***************************************************************************)
\* the document the Sign up handler builds
NewUserDoc(su_username, su_name, su_email, pw_hash, t) ==
    [ username |-> Lower(Strip(su_username)),
      full_name |-> Strip(su_name),
      email |-> Strip(su_email),
      password_hash |-> pw_hash,
      bio |-> <<>>,
      skills |-> <<>>,
      projects |-> <<>>,
      social_links |-> {},
      profile_pic |-> None,
      created_at |-> t,
      updated_at |-> t ]

\* the fields "Create sample portfolio (demo)" sets
SampleFields(t) ==
    [ full_name |-> <<"D","e","m","o"," ","U","s","e","r">>,
      \* "This is a sample portfolio created for demo."
      bio |-> <<"T","h","i","s"," ","i","s"," ","a"," ","s","a","m","p","l","e"," ",
                "p","o","r","t","f","o","l","i","o"," ","c","r","e","a","t","e","d"," ",
                "f","o","r"," ","d","e","m","o",".">>,
      skills |-> << <<"P","y","t","h","o","n">>,
                    <<"S","t","r","e","a","m","l","i","t">>,
                    <<"M","o","n","g","o","D","B">> >>,
      projects |-> << [ title |-> <<"D","e","m","o"," ","P","r","o","j","e","c","t">>,
                        description |-> <<"A"," ","d","e","m","o"," ","p","r","o","j","e","c","t",".">>,
                        \* "https://example.com"
                        link |-> <<"h","t","t","p","s",":","/","/","e","x","a","m","p","l","e",
                                   ".","c","o","m">> ] >>,
      \* "https://github.com/"
      social_links |-> { <<"GitHub", <<"h","t","t","p","s",":","/","/","g","i","t","h","u","b",
                                       ".","c","o","m","/">> >>,
                         <<"LinkedIn", <<>> >> },
      updated_at |-> t ]

\* [s.strip() for s in skills_raw.split(",") if s.strip()]
RECURSIVE StripNonEmpty(_)
StripNonEmpty(pieces) ==
    IF pieces = <<>> THEN <<>>
    ELSE IF Strip(Head(pieces)) # <<>>
         THEN <<Strip(Head(pieces))>> \o StripNonEmpty(Tail(pieces))
         ELSE StripNonEmpty(Tail(pieces))

ParseSkills(skills_raw) == StripNonEmpty(Split(skills_raw, ","))

\* the update "Save portfolio" composes but for its time stamp
UpdatedFields_no_stamp(form, sess, user_doc, t) ==
    [ full_name |-> Strip(form.full_name),
      bio |-> Strip(form.bio),
      skills |-> ParseSkills(form.skills_raw),
      projects |-> IF sess.projects_temp # None THEN sess.projects_temp[1]
                   ELSE user_doc.projects,
      social_links |-> { <<"GitHub", Strip(form.github)>>,
                         <<"LinkedIn", Strip(form.linkedin)>>,
                         <<"Website", Strip(form.website)>> },
      profile_pic |-> IF form.img_file # None
                      THEN Some(image_bytes_to_base64(form.img_file[1]))
                      ELSE user_doc.profile_pic ]

\* the update "Save portfolio" composes
UpdatedFields(form, sess, user_doc, t) ==
    [ full_name |-> Strip(form.full_name),
      bio |-> Strip(form.bio),
      skills |-> ParseSkills(form.skills_raw),
      projects |-> IF sess.projects_temp # None THEN sess.projects_temp[1]
                   ELSE user_doc.projects,
      social_links |-> { <<"GitHub", Strip(form.github)>>,
                         <<"LinkedIn", Strip(form.linkedin)>>,
                         <<"Website", Strip(form.website)>> },
      updated_at |-> t,
      profile_pic |-> IF form.img_file # None
                      THEN Some(image_bytes_to_base64(form.img_file[1]))
                      ELSE user_doc.profile_pic ]

(***************************************************************************)
(* Search                                                                  *)
(***************************************************************************)
\* One pattern character against one subject character under option "i".
\* Of the regular-expression syntax the search terms here use only literals
\* and ".", which stands for any character.
RegexCharMatches(pc, c) == pc = "." \/ LowerChar(pc) = LowerChar(c)

\* {"$regex": pattern, "$options": "i"}: the pattern matches somewhere
RegexSearch(pattern, subject) ==
    \E off \in 0..(Len(subject) - Len(pattern)) :
        \A i \in 1..Len(pattern) : RegexCharMatches(pattern[i], subject[off + i])

\* the query document of the search box
QueryMatches(search_term, doc) ==
    IF search_term = <<>> THEN TRUE
    ELSE LET term == Lower(Strip(search_term))
         IN  \/ RegexSearch(term, doc.username)
             \/ RegexSearch(term, doc.full_name)
             \/ \E i \in 1..Len(doc.skills) : RegexSearch(term, doc.skills[i])

\* the projection {"password_hash": 0}
Project(doc) == [f \in DOMAIN doc \ {"password_hash"} |-> doc[f]]

RECURSIVE Filter(_, _)
Filter(coll, search_term) ==
    IF coll = <<>> THEN <<>>
    ELSE IF QueryMatches(search_term, Head(coll))
         THEN <<Head(coll)>> \o Filter(Tail(coll), search_term)
         ELSE Filter(Tail(coll), search_term)

\* .sort("updated_at", -1): no two documents of the model carry the same
\* updated_at, so the order is determined
RECURSIVE InsertDesc(_, _)
InsertDesc(sorted, doc) ==
    IF sorted = <<>> THEN <<doc>>
    ELSE IF doc.updated_at > Head(sorted).updated_at THEN <<doc>> \o sorted
    ELSE <<Head(sorted)>> \o InsertDesc(Tail(sorted), doc)

RECURSIVE SortDesc(_)
SortDesc(coll) ==
    IF coll = <<>> THEN <<>> ELSE InsertDesc(SortDesc(Tail(coll)), Head(coll))

\* list(users_col.find(query, {"password_hash": 0}).sort("updated_at", -1))
FindSorted(coll, search_term) ==
    LET hits == SortDesc(Filter(coll, search_term))
    IN  [i \in 1..Len(hits) |-> Project(hits[i])]

(***************************************************************************)
(* Initial state: an empty collection, two fresh sessions                  *)
(***************************************************************************)
Init ==
    /\ users = <<>>
    /\ session = [s \in Sessions |-> NewSession(None)]
    /\ now = 0
    /\ temp_src = [s \in Sessions |-> <<>>]
    /\ hashed = None
    /\ verified = None

\* a run of session s ends with the page rendered from sess and coll
Finish(s, sess, src, coll) ==
    /\ session' = [session EXCEPT ![s] = Render(sess, coll)]
    /\ temp_src' = [temp_src EXCEPT ![s] = RenderSrc(sess, src, coll)]

(***************************************************************************)
(* What the handlers display.  A message is an output of the run: it is    *)
(* kept in no variable, each handler below branches on it.                 *)
(***************************************************************************)
\* the Sign up handler's st.warning / st.success / st.error
SignUpMessage(coll, su_username, su_password, su_confirm) ==
    IF su_username = <<>> \/ su_password = <<>>
    THEN "warning: Please provide username and password."
    ELSE IF su_password # su_confirm
    THEN "warning: Passwords don't match."
    ELSE IF insert_one(coll, NewUserDoc(su_username, <<>>, <<>>, <<>>, 0)).raised
    THEN "error: Could not create account"
    ELSE "success: Account created - you can now log in."

\* the Login handler's st.warning / st.error / st.success
LoginMessage(coll, li_username, li_password) ==
    IF li_username = <<>> \/ li_password = <<>>
    THEN "warning: Enter username and password."
    ELSE LET user == find_one(coll, Lower(Strip(li_username)))
         IN  IF user = None
             THEN "error: Invalid username or password."
             ELSE IF verify_password(user[1].password_hash, li_password)
             THEN "success: Logged in!"
             ELSE "error: Invalid username or password."

\* the edit page's st.warning, or the Save handler's st.success
SaveMessage(sess) ==
    IF ~ EditAllowed(sess)
    THEN "warning: You must be logged in as this user to edit their portfolio."
    ELSE "success: Portfolio saved."

(***************************************************************************)
(* The runs of the script                                                  *)
(***************************************************************************)
\* A browser opens the app at a URL, with or without ?edit=<username>: a new
\* session (st.session_state.user = None, no projects_temp).
OpenPage(s, edit) ==
    /\ Finish(s, NewSession(edit), <<>>, users)
    /\ UNCHANGED <<users, now, hashVars>>

\* "Sign up" clicked; salt is what os.urandom returns.  The handler reads the
\* clock before it inserts; a reading that is stored nowhere leaves no trace,
\* so now moves only when the document goes in.
SignUp(s, su_username, su_name, su_email, su_password, su_confirm, salt) ==
    /\ ~ Truthy(session[s].user)
    /\ IF su_username = <<>> \/ su_password = <<>>
       THEN UNCHANGED <<users, now>>
       ELSE IF su_password # su_confirm
       THEN UNCHANGED <<users, now>>
       ELSE /\ now < MaxTime
            /\ LET pw_hash == hash_password(su_password, salt)
                   doc == NewUserDoc(su_username, su_name, su_email, pw_hash, now + 1)
                   res == insert_one(users, doc)
               IN  /\ users' = res.coll
                   /\ now' = IF res.raised THEN now ELSE now + 1
    /\ Finish(s, session[s], temp_src[s], users')
    /\ UNCHANGED hashVars

\* "Login" clicked
Login(s, li_username, li_password) ==
    /\ ~ Truthy(session[s].user)
    /\ IF li_username = <<>> \/ li_password = <<>>
       THEN Finish(s, session[s], temp_src[s], users)
       ELSE LET user == find_one(users, Lower(Strip(li_username)))
            IN  IF user = None
                THEN Finish(s, session[s], temp_src[s], users)
                ELSE IF verify_password(user[1].password_hash, li_password)
                THEN Finish(s, login_user(session[s], user[1].username),
                            temp_src[s], users)
                ELSE Finish(s, session[s], temp_src[s], users)
    /\ UNCHANGED <<users, now, hashVars>>

\* "Logout" clicked
Logout(s) ==
    /\ Truthy(session[s].user)
    /\ Finish(s, logout_user(session[s]), temp_src[s], users)
    /\ UNCHANGED <<users, now, hashVars>>

\* The search box changed: the run lists FindSorted(users, search_term) and
\* changes nothing.
Search(s, search_term) ==
    /\ Finish(s, session[s], temp_src[s], users)
    /\ UNCHANGED <<users, now, hashVars>>

\* "Edit my portfolio" clicked
EditMyPortfolio(s) ==
    /\ Truthy(session[s].user)
    /\ Finish(s, [session[s] EXCEPT !.edit = Some(session[s].user[1])], temp_src[s], users)
    /\ UNCHANGED <<users, now, hashVars>>

\* "Create sample portfolio (demo)" clicked
CreateSample(s) ==
    /\ Truthy(session[s].user)
    /\ now < MaxTime
    /\ now' = now + 1
    /\ users' = update_one(users, session[s].user[1], SampleFields(now'))
    /\ Finish(s, session[s], temp_src[s], users')
    /\ UNCHANGED hashVars

\* "Add project" (the form's submit button) clicked; without a title the
\* handler only warns
AddProject(s, project) ==
    /\ EditAllowed(session[s])
    /\ session[s].projects_temp # None
    /\ IF project.title # <<>>
       THEN /\ Len(session[s].projects_temp[1]) < MaxProjects
            /\ Finish(s, [session[s] EXCEPT
                             !.projects_temp = Some(Append(session[s].projects_temp[1], project))],
                      Append(temp_src[s], session[s].user[1]), users)
       ELSE Finish(s, session[s], temp_src[s], users)
    /\ UNCHANGED <<users, now, hashVars>>

\* list.pop(i), i counted from 0
Pop(list, i) == SubSeq(list, 1, i) \o SubSeq(list, i + 2, Len(list))

\* "Remove" clicked beside entry i of the temporary list
RemoveProject(s, i) ==
    /\ EditAllowed(session[s])
    /\ session[s].projects_temp # None
    /\ i \in 0..(Len(session[s].projects_temp[1]) - 1)
    /\ Finish(s, [session[s] EXCEPT !.projects_temp = Some(Pop(session[s].projects_temp[1], i))],
              Pop(temp_src[s], i), users)
    /\ UNCHANGED <<users, now, hashVars>>

\* "Save portfolio" submitted to a run whose URL carries edit=<username>:
\* the run first passes the edit page's check and reads user_doc (without
\* a document the form's user_doc.get raises and the run ends there)
SavePortfolio(s, form) ==
    /\ session[s].edit # None
    /\ IF ~ EditAllowed(session[s]) \/ find_one(users, session[s].edit[1]) = None
       THEN /\ Finish(s, session[s], temp_src[s], users)
            /\ UNCHANGED <<users, now>>
       ELSE LET edit_username == session[s].edit[1]
                shown == Render(session[s], users)
                user_doc == find_one(users, edit_username)[1]
            IN  /\ now < MaxTime
                /\ now' = now + 1
                /\ users' = update_one(users, edit_username,
                                       UpdatedFields(form, shown, user_doc, now'))
                /\ Finish(s, [shown EXCEPT !.projects_temp = None, !.edit = None],
                          <<>>, users')
    /\ UNCHANGED hashVars

(***************************************************************************)
(* Spec: one browser session, every handler, every input.                  *)
(***************************************************************************)
Next ==
    \/ \E s \in Solo, edit \in EditTokens : OpenPage(s, edit)
    \/ \E s \in Solo, su_username \in UsernameInputs, su_name \in NameInputs,
          su_email \in EmailInputs, su_password \in SignupPasswords,
          su_confirm \in ConfirmInputs, salt \in SignupSalts :
            SignUp(s, su_username, su_name, su_email, su_password, su_confirm, salt)
    \/ \E s \in Solo, li_username \in UsernameInputs, li_password \in PasswordInputs :
            Login(s, li_username, li_password)
    \/ \E s \in Solo : Logout(s)
    \/ \E s \in Solo, search_term \in SearchTerms : Search(s, search_term)
    \/ \E s \in Solo : EditMyPortfolio(s)
    \/ \E s \in Solo : CreateSample(s)
    \/ \E s \in Solo, project \in ProjectInputs : AddProject(s, project)
    \/ \E s \in Solo, i \in 0..(MaxProjects - 1) : RemoveProject(s, i)
    \/ \E s \in Solo, form \in FormInputs : SavePortfolio(s, form)

Spec == Init /\ [][Next]_vars

(***************************************************************************)
(* SpecRace: two browser sessions, each opened at a URL with or without an *)
(* edit token, interleaved in any order.  The sessions sign up, log in,    *)
(* edit and save; they do not log out or reopen the page.                  *)
(***************************************************************************)
InitRace ==
    /\ users = <<>>
    /\ session \in [Sessions -> {NewSession(edit) : edit \in EditTokens}]
    /\ now = 0
    /\ temp_src = [s \in Sessions |-> <<>>]
    /\ hashed = None
    /\ verified = None

NextRace ==
    \/ \E s \in Sessions, su_username \in RaceUsernames, su_name \in NameInputs,
          su_email \in EmailInputs, salt \in SignupSalts :
            SignUp(s, su_username, su_name, su_email, <<"p">>, <<"p">>, salt)
    \/ \E s \in Sessions, li_username \in RaceUsernames, li_password \in RacePasswords :
            Login(s, li_username, li_password)
    \/ \E s \in Sessions : EditMyPortfolio(s)
    \/ \E s \in Sessions : CreateSample(s)
    \/ \E s \in Sessions, project \in ProjectInputs : AddProject(s, project)
    \/ \E s \in Sessions, i \in 0..(MaxProjects - 1) : RemoveProject(s, i)
    \/ \E s \in Sessions, form \in FormInputs : SavePortfolio(s, form)

SpecRace == InitRace /\ [][NextRace]_vars

(***************************************************************************)
(* SpecHash: hash_password and verify_password applied alone, to every     *)
(* password of up to MaxPwLen characters and every salt of Salts.          *)
(***************************************************************************)
HashPassword(password, salt) ==
    /\ hashed' = Some([password |-> password, salt |-> salt,
                       digest |-> hash_password(password, salt)])
    /\ verified' = None
    /\ UNCHANGED appVars

VerifyPassword(password) ==
    /\ hashed # None
    /\ verified' = Some([password |-> password,
                         ok |-> verify_password(hashed[1].digest, password)])
    /\ UNCHANGED <<hashed, appVars>>

NextHash ==
    \/ \E password \in Passwords, salt \in Salts : HashPassword(password, salt)
    \/ \E password \in Passwords : VerifyPassword(password)

SpecHash == Init /\ [][NextHash]_vars

(***************************************************************************)
(* Properties                                                              *)
(***************************************************************************)
Normalise(username) == Lower(Strip(username))

NormalisedUsernames(coll) == {Normalise(coll[i].username) : i \in 1..Len(coll)}

SignUpSucceeds(coll, su_username, su_password, su_confirm) ==
    SignUpMessage(coll, su_username, su_password, su_confirm)
        = "success: Account created - you can now log in."

LoginSucceeds(coll, li_username, li_password) ==
    LoginMessage(coll, li_username, li_password) = "success: Logged in!"

UniqueUsernames ==
    \A i, j \in 1..Len(users) :
        i # j => Normalise(users[i].username) # Normalise(users[j].username)

SignupRefusesTaken ==
    \A su_username \in UsernameInputs, su_password \in SignupPasswords,
       su_confirm \in ConfirmInputs :
        Normalise(su_username) \in NormalisedUsernames(users)
            => ~ SignUpSucceeds(users, su_username, su_password, su_confirm)

\* C1: no two records ever share a username (compared trimmed and
\* lower-cased), and a signup whose normalised username is taken does not
\* succeed, inserts nothing and leaves every record as it was.
C1_UsernamesStayUnique ==
    /\ [] UniqueUsernames
    /\ [] SignupRefusesTaken
    /\ [][ users' # users =>
             \A s \in Solo, su_username \in UsernameInputs, su_name \in NameInputs,
                su_email \in EmailInputs, su_password \in SignupPasswords,
                su_confirm \in ConfirmInputs, salt \in SignupSalts :
                  Normalise(su_username) \in NormalisedUsernames(users)
                      => ~ SignUp(s, su_username, su_name, su_email, su_password,
                                  su_confirm, salt) ]_vars

\* two accounts exist, "a" among them, and the Sign up form is on the page:
\* a signup as "A " is refused here
C1_Witness ==
    /\ Len(users) = 2
    /\ <<"a">> \in Usernames(users)
    /\ ~ Truthy(session["s1"].user)
    /\ ~ SignUpSucceeds(users, <<"A", " ">>, <<"p">>, <<"p">>)

\* C4: no stored record has the empty string as its username.
C4_NoEmptyUsername ==
    \A i \in 1..Len(users) : users[i].username # <<>>

\* C3: Login succeeds exactly when a record with the normalised username
\* exists and the password verifies against its digest.
C3_LoginSucceedsExactlyWhenVerified ==
    \A li_username \in UsernameInputs, li_password \in PasswordInputs :
        LoginSucceeds(users, li_username, li_password)
            <=> \E i \in 1..Len(users) :
                    /\ users[i].username = Normalise(li_username)
                    /\ verify_password(users[i].password_hash, li_password)

\* C5: verify_password accepts a digest of hash_password for the password
\* that was hashed, whatever the salt, and for no other password.
C5_VerifyAcceptsOnlyTheHashedPassword ==
    verified # None =>
        (verified[1].ok <=> verified[1].password = hashed[1].password)

\* a digest was checked against another password of the same length, and
\* refused
C5_Witness ==
    /\ verified # None
    /\ hashed[1].password # <<>>
    /\ verified[1].password # hashed[1].password
    /\ Len(verified[1].password) = Len(hashed[1].password)
    /\ ~ verified[1].ok

\* term occurs in subject as a substring, letter case ignored
Contains(subject, term) ==
    \E off \in 0..(Len(subject) - Len(term)) :
        \A i \in 1..Len(term) : LowerChar(subject[off + i]) = LowerChar(term[i])

ContainsTerm(doc, term) ==
    \/ Contains(doc.username, term)
    \/ Contains(doc.full_name, term)
    \/ \E i \in 1..Len(doc.skills) : Contains(doc.skills[i], term)

\* C6: a search returns exactly the records whose username, full name or
\* some skill contains the term as a case-insensitive substring (all of them
\* for an empty term), most recently updated first, without password_hash.
C6_SearchReturnsSubstringMatches ==
    \A search_term \in SearchTerms :
        LET res == FindSorted(users, search_term)
            term == Normalise(search_term)
        IN  /\ {res[i].username : i \in 1..Len(res)}
                 = {users[j].username : j \in {k \in 1..Len(users) : ContainsTerm(users[k], term)}}
            /\ \A i \in 1..Len(res) :
                    /\ "password_hash" \notin DOMAIN res[i]
                    /\ \E j \in 1..Len(users) :
                           \A f \in DOMAIN res[i] : res[i][f] = users[j][f]
            /\ \A i \in 1..(Len(res) - 1) : res[i].updated_at >= res[i + 1].updated_at

StampsInOrder ==
    \A i \in 1..Len(users) :
        /\ users[i].password_hash # <<>>
        /\ users[i].updated_at >= users[i].created_at

\* C7: every record has a non-empty password_hash and updated_at >=
\* created_at; created_at never changes after the insert; a step that
\* changes a record sets its updated_at to the clock reading of that step.
C7_StampsFollowTheWrites ==
    /\ [] StampsInOrder
    /\ [][ users' # users =>
             /\ Len(users') >= Len(users)
             /\ now' > now
             /\ \A i \in 1..Len(users) :
                    /\ users'[i].created_at = users[i].created_at
                    /\ users'[i] # users[i] => users'[i].updated_at = now'
             /\ \A i \in (Len(users) + 1)..Len(users') :
                    /\ users'[i].created_at = now'
                    /\ users'[i].updated_at = now' ]_vars

\* a record inserted at one reading of the clock and saved at a later one
C7_Witness ==
    \E i \in 1..Len(users) :
        /\ users[i].updated_at > users[i].created_at
        /\ users[i].bio = <<"h", "i">>

SessionUserExists ==
    \A s \in Sessions :
        session[s].user = None \/ session[s].user[1] \in Usernames(users)

\* C8: a session's user is absent or the username of a stored record; a
\* signup leaves it as it is; it becomes a username only by a login that
\* succeeds and absent only by Logout (or a freshly opened page); Logout
\* always leaves it absent; no save writes while it is absent.
C8_SessionFollowsLoginAndLogout ==
    /\ [] SessionUserExists
    /\ [][ users' # users =>
             \A s \in Sessions :
                /\ \A su_username \in UsernameInputs, su_name \in NameInputs,
                      su_email \in EmailInputs, su_password \in SignupPasswords,
                      su_confirm \in ConfirmInputs, salt \in SignupSalts :
                        SignUp(s, su_username, su_name, su_email, su_password,
                               su_confirm, salt)
                            => session'[s].user = session[s].user
                /\ \A form \in FormInputs :
                       SavePortfolio(s, form) => session[s].user # None ]_vars
    /\ [][ session' # session =>
             \A s \in Sessions :
                /\ Logout(s) => session'[s].user = None
                /\ (session'[s].user # session[s].user /\ session'[s].user # None)
                       => \E li_username \in UsernameInputs, li_password \in PasswordInputs :
                             /\ LoginSucceeds(users, li_username, li_password)
                             /\ Login(s, li_username, li_password)
                /\ (session'[s].user # session[s].user /\ session'[s].user = None)
                       => \/ Logout(s)
                          \/ \E edit \in EditTokens : OpenPage(s, edit) ]_vars

\* a session that logged in, opened its edit page and then logged out
C8_Witness ==
    /\ session["s1"].user = None
    /\ session["s1"].projects_temp # None
    /\ Len(users) > 0

\* C10: the projects a save writes to a user's record were read from that
\* user's record or added while that user was logged in.
C10_SavedProjectsAreTheOwners ==
    [][ users' # users =>
          \A s \in Sessions, form \in FormInputs :
              SavePortfolio(s, form) =>
                  \A i \in 1..Len(temp_src[s]) : temp_src[s][i] = session[s].edit[1] ]_vars

Mismatch(sess) == sess.edit # None /\ (sess.user = None \/ sess.user # sess.edit)

SaveRefusedOnMismatch ==
    \A s \in Sessions :
        Mismatch(session[s])
            => SaveMessage(session[s])
                  = "warning: You must be logged in as this user to edit their portfolio."

\* C2: a step that changes a stored record is a Save portfolio or a Create
\* sample portfolio run of a session whose user is that record's username;
\* a save attempt of a session whose user is absent or differs from the
\* edit token is refused and changes no record, whatever the fields.
C2_OnlyTheOwnerWrites ==
    /\ [] SaveRefusedOnMismatch
    /\ [][ users' # users =>
             /\ Len(users') >= Len(users)
             /\ \A i \in 1..Len(users) :
                    users'[i] # users[i] =>
                        \E s \in Sessions :
                            /\ session[s].user = Some(users[i].username)
                            /\ \/ CreateSample(s)
                               \/ \E form \in FormInputs : SavePortfolio(s, form)
             /\ \A s \in Sessions, form \in FormInputs :
                    Mismatch(session[s]) => ~ SavePortfolio(s, form) ]_vars

\* a session opened with another account's edit token is logged in, that
\* account exists, and a record has been saved
C2_Witness ==
    \E s \in Sessions :
        /\ session[s].user = Some(<<"a">>)
        /\ session[s].edit = Some(<<"b">>)
        /\ <<"b">> \in Usernames(users)
        /\ \E i \in 1..Len(users) : users[i].updated_at > users[i].created_at

====
